---- MODULE Spec2Model ----
(***************************************************************************)
(* Model of the login page component (src/src/app/auth/login/page.tsx)    *)
(* and of the lazy token initializer of the API client, whose code is      *)
(* quoted in src/HYDRATION_FIXES_COMPLETE.md.                              *)
(*                                                                         *)
(* One LoginPage instance is modelled from its first render to its         *)
(* unmount.  Each event handler and each continuation of an awaited        *)
(* promise is one atomic action (single-threaded cooperative scheduling).  *)
(* After every state change the component re-renders: `view` is the        *)
(* output of the last render.                                              *)
(***************************************************************************)
EXTENDS Integers, Sequences, FiniteSets

\* ---------------------------------------------------------------- bounds
MaxAttach == 2      \* runs of the attach effect (2 = a strict-mode double run)
MaxCalls == 3       \* remote login calls issued by one instance
MaxClientCalls == 3 \* calls of initializeToken / getToken on one client object

\* ------------------------------------------------------- values of the code
null == "null"                       \* JavaScript null
NoMessage == "undefined"             \* a response / error without a message
ApiModule == "module.default"        \* the default export of @/lib/apiClient

StillLoading == "Application is still loading. Please try again."
LoginFailedFallback == "Login failed. Please check your credentials."
NetworkFallback == "Network error. Please try again."

\* values a user can type into a field, next to the initial ""
EmailValues == {"a@b.com"}
PasswordValues == {"password1"}
\* message carried by a failure response or by a rejection
Messages == {NoMessage, "", "Invalid credentials"}

EmptyForm == [email |-> "", password |-> ""]
NoOutcome == [kind |-> "none", success |-> FALSE, message |-> NoMessage]
Outcomes ==
    {[kind |-> "resolved", success |-> TRUE, message |-> NoMessage]}
    \cup {[kind |-> "resolved", success |-> FALSE, message |-> m] : m \in Messages}
    \cup {[kind |-> "rejected", success |-> FALSE, message |-> m] : m \in Messages}

VARIABLES
    attached,      \* the instance is part of the live tree (not yet unmounted)
    effectRuns,    \* number of runs of the attach effect so far
    imports,       \* dynamic imports of @/lib/apiClient still pending
    apiClient,     \* the module-level reference, shared by all instances
    mounted,       \* useState(false)
    formData,      \* useState({email: "", password: ""})
    loading,       \* useState(false)
    error,         \* useState<string | null>(null)
    view,          \* what the last render returned
    pending,       \* the apiClient.login calls awaited by handleLogin
    issued,        \* number of apiClient.login calls issued so far
    navigations,   \* number of router.replace("/dashboard") calls so far
    status,        \* position of the submission flow
    lastOutcome,   \* how the last settled login call ended
    lastEvent      \* the handler or continuation that ran last

VARIABLES
    isInitialized, \* ApiClient.isInitialized
    token,         \* ApiClient.token
    storage,       \* the environment's storage capability, as the client sees it
    reads,         \* number of localStorage.getItem("auth_token") calls so far
    failedReads,   \* number of those calls that raised
    clientCalls,   \* number of initializeToken / getToken calls so far
    lastCall       \* the last call of the client: its circumstances and result

pageVars == <<attached, effectRuns, imports, apiClient, mounted, formData,
              loading, error, view, pending, issued, navigations, status,
              lastOutcome, lastEvent>>

clientVars == <<isInitialized, token, storage, reads, failedReads, clientCalls,
                lastCall>>

vars == <<pageVars, clientVars>>

\* ------------------------------------------------------------- helpers
\* JavaScript truthiness of an optional string
Truthy(s) == s \notin {null, NoMessage, ""}

\* a || b on optional strings
OrElse(a, b) == IF Truthy(a) THEN a ELSE b

RemoveAt(s, i) == [j \in 1..(Len(s) - 1) |-> IF j < i THEN s[j] ELSE s[j + 1]]

\* render(): the skeleton while mounted is false, the form afterwards
renderAlwaysForm(m) == "form"
render(m) == IF ~m THEN "placeholder" ELSE "form"

\* what is on screen after a state change; an unmounted instance shows nothing
Rendered(att, m) == IF att THEN render(m) ELSE "none"

\* a state setter of an unmounted instance changes nothing
SetState(old, new) == IF attached THEN new ELSE old

\* the not-ready test of handleLogin
NotReadyAnd(m, c) == ~m /\ c = null
NotReady(m, c) == ~m \/ c = null

\* disabled={loading || !mounted} of the submit button
SubmitDisabledUnlessMounted == ~mounted
SubmitDisabled == loading \/ ~mounted

\* the `required` attributes of both inputs: the browser fires no submit
\* event while a required field is empty
FormValid == formData.email # "" /\ formData.password # ""

\* ------------------------------------------------- the API client's token
\* the storage capability: typeof window, typeof localStorage, the value
\* stored under "auth_token", and whether getItem raises
StoredValues == {null, "token-1", "token-2"}
Storages == [window : BOOLEAN, localStorage : BOOLEAN,
             value : StoredValues, throws : BOOLEAN]
ServerSide == [window |-> FALSE, localStorage |-> FALSE,
               value |-> null, throws |-> FALSE]
NoCall == [op |-> "none", storage |-> ServerSide, wasInitialized |-> FALSE,
           read |-> FALSE, raised |-> FALSE, returned |-> NoMessage]

\* constructor(baseURL): no storage access; the token field starts absent
ClientInit ==
    /\ isInitialized = FALSE
    /\ token = null
    /\ storage = ServerSide
    /\ reads = 0
    /\ failedReads = 0
    /\ clientCalls = 0
    /\ lastCall = NoCall

\* initializeToken(), as a function of the object's fields and the
\* environment: the fields afterwards, whether getItem was called, and
\* whether the call raised
initializeTokenRetry(init, tok, env) ==
    IF init
      THEN [isInitialized |-> TRUE, token |-> tok, read |-> FALSE, raised |-> FALSE]
    ELSE IF env.window /\ env.localStorage
      THEN IF env.throws
             THEN [isInitialized |-> FALSE, token |-> null, read |-> TRUE, raised |-> FALSE]
             ELSE [isInitialized |-> TRUE, token |-> env.value, read |-> TRUE, raised |-> FALSE]
      ELSE [isInitialized |-> TRUE, token |-> tok, read |-> FALSE, raised |-> FALSE]
initializeTokenNoCatch(init, tok, env) ==
    IF init
      THEN [isInitialized |-> TRUE, token |-> tok, read |-> FALSE, raised |-> FALSE]
    ELSE IF env.window /\ env.localStorage
      THEN IF env.throws
             THEN [isInitialized |-> FALSE, token |-> tok, read |-> TRUE, raised |-> TRUE]
             ELSE [isInitialized |-> TRUE, token |-> env.value, read |-> TRUE, raised |-> FALSE]
      ELSE [isInitialized |-> TRUE, token |-> tok, read |-> FALSE, raised |-> FALSE]
initializeTokenBrowserOnly(init, tok, env) ==
    IF init
      THEN [isInitialized |-> TRUE, token |-> tok, read |-> FALSE, raised |-> FALSE]
    ELSE IF env.window /\ env.localStorage
      THEN IF env.throws
             THEN [isInitialized |-> TRUE, token |-> null, read |-> TRUE, raised |-> FALSE]
             ELSE [isInitialized |-> TRUE, token |-> env.value, read |-> TRUE, raised |-> FALSE]
      ELSE [isInitialized |-> FALSE, token |-> tok, read |-> FALSE, raised |-> FALSE]
initializeToken(init, tok, env) ==
    IF init
      THEN [isInitialized |-> TRUE, token |-> tok, read |-> FALSE, raised |-> FALSE]
    ELSE IF env.window /\ env.localStorage
      THEN IF env.throws
             THEN [isInitialized |-> TRUE, token |-> null, read |-> TRUE, raised |-> FALSE]
             ELSE [isInitialized |-> TRUE, token |-> env.value, read |-> TRUE, raised |-> FALSE]
      ELSE [isInitialized |-> TRUE, token |-> tok, read |-> FALSE, raised |-> FALSE]

\* ensureInitialized(): one call of initializeToken()
ensureInitialized ==
    LET r == initializeToken(isInitialized, token, storage)
    IN  /\ clientCalls < MaxClientCalls
        /\ clientCalls' = clientCalls + 1
        /\ isInitialized' = r.isInitialized
        /\ token' = r.token
        /\ reads' = IF r.read THEN reads + 1 ELSE reads
        /\ failedReads' = IF r.read /\ storage.throws THEN failedReads + 1
                           ELSE failedReads
        /\ lastCall' = [op |-> "ensureInitialized", storage |-> storage,
                        wasInitialized |-> isInitialized,
                        read |-> r.read, raised |-> r.raised,
                        returned |-> NoMessage]
        /\ UNCHANGED <<pageVars, storage>>

\* getToken(): initializeToken(), then return this.token
getToken ==
    LET r == initializeToken(isInitialized, token, storage)
    IN  /\ clientCalls < MaxClientCalls
        /\ clientCalls' = clientCalls + 1
        /\ isInitialized' = r.isInitialized
        /\ token' = r.token
        /\ reads' = IF r.read THEN reads + 1 ELSE reads
        /\ failedReads' = IF r.read /\ storage.throws THEN failedReads + 1
                           ELSE failedReads
        /\ lastCall' = [op |-> "getToken", storage |-> storage,
                        wasInitialized |-> isInitialized,
                        read |-> r.read, raised |-> r.raised,
                        returned |-> IF r.raised THEN NoMessage ELSE r.token]
        /\ UNCHANGED <<pageVars, storage>>

\* the environment changes: the object moves from the server to the browser,
\* the stored value changes, access to the storage becomes restricted
StorageChange ==
    /\ \E env \in Storages : env # storage /\ storage' = env
    /\ UNCHANGED <<pageVars, isInitialized, token, reads, failedReads,
                   clientCalls, lastCall>>

\* ------------------------------------------------------------- Init
Init ==
    /\ attached = TRUE
    /\ effectRuns = 0
    /\ imports = 0
    /\ apiClient \in {null, ApiModule}   \* an earlier instance may have loaded it
    /\ mounted = FALSE
    /\ formData = EmptyForm
    /\ loading = FALSE
    /\ error = null
    /\ view = Rendered(TRUE, FALSE)
    /\ pending = <<>>
    /\ issued = 0
    /\ navigations = 0
    /\ status = "Idle"
    /\ lastOutcome = NoOutcome
    /\ lastEvent = "none"
    /\ ClientInit

\* ------------------------------------------------------------- actions
\* useEffect(() => { import("@/lib/apiClient").then(...) }, [])
AttachResetsMounted ==
    /\ attached
    /\ effectRuns < MaxAttach
    /\ effectRuns' = effectRuns + 1
    /\ imports' = imports + 1
    /\ mounted' = FALSE
    /\ view' = Rendered(attached, FALSE)
    /\ lastEvent' = "useEffect"
    /\ UNCHANGED <<clientVars, attached, apiClient, formData, loading, error, pending,
                   issued, navigations, status, lastOutcome>>
Attach ==
    /\ attached
    /\ effectRuns < MaxAttach
    /\ effectRuns' = effectRuns + 1
    /\ imports' = imports + 1
    /\ lastEvent' = "useEffect"
    /\ UNCHANGED <<clientVars, attached, apiClient, mounted, formData, loading, error, view,
                   pending, issued, navigations, status, lastOutcome>>

\* .then((module) => { apiClient = module.default; setMounted(true); })
ImportResolveKeepsSlot ==
    /\ imports > 0
    /\ imports' = imports - 1
    /\ mounted' = SetState(mounted, TRUE)
    /\ view' = Rendered(attached, mounted')
    /\ lastEvent' = "import.then"
    /\ UNCHANGED <<clientVars, attached, effectRuns, apiClient, formData, loading,
                   error, pending, issued, navigations, status, lastOutcome>>
ImportResolve ==
    /\ imports > 0
    /\ imports' = imports - 1
    /\ apiClient' = ApiModule
    /\ mounted' = SetState(mounted, TRUE)
    /\ view' = Rendered(attached, mounted')
    /\ lastEvent' = "import.then"
    /\ UNCHANGED <<clientVars, attached, effectRuns, formData, loading, error, pending,
                   issued, navigations, status, lastOutcome>>

\* the import promise rejects: there is no rejection handler
ImportReject ==
    /\ imports > 0
    /\ imports' = imports - 1
    /\ lastEvent' = "import.rejected"
    /\ UNCHANGED <<clientVars, attached, effectRuns, apiClient, mounted, formData, loading,
                   error, view, pending, issued, navigations, status,
                   lastOutcome>>

\* onChange of an input of the rendered form; the inputs are disabled={loading}
handleInputChange ==
    /\ attached
    /\ view = "form"
    /\ ~loading
    /\ \E name \in {"email", "password"} :
         \E value \in (IF name = "email" THEN EmailValues ELSE PasswordValues) \cup {""} :
            formData' = [formData EXCEPT ![name] = value]
    /\ error' = null
    /\ lastEvent' = "change"
    /\ UNCHANGED <<clientVars, attached, effectRuns, imports, apiClient, mounted, loading,
                   view, pending, issued, navigations, status, lastOutcome>>

\* A submit event of the rendered form ("form"), or the handler called
\* directly on the live instance ("direct"), whatever is rendered.
CanInvoke(origin) ==
    /\ attached
    /\ origin = "form" => (view = "form" /\ ~SubmitDisabled /\ FormValid)

SubmitEvent(origin) == IF origin = "form" THEN "submit:form" ELSE "submit:direct"
SubmitEvents == {"submit:form", "submit:direct"}

\* handleLogin up to its await, invoked from `origin`
Submit(origin) ==
    /\ CanInvoke(origin)
    /\ lastEvent' = SubmitEvent(origin)
    /\ IF NotReady(mounted, apiClient)
         THEN /\ error' = StillLoading
              /\ UNCHANGED <<loading, pending, issued, status>>
         ELSE /\ issued < MaxCalls
              /\ loading' = TRUE
              /\ error' = null
              /\ pending' = Append(pending, [email |-> formData.email,
                                             password |-> formData.password,
                                             origin |-> origin])
              /\ issued' = issued + 1
              /\ status' = "Submitting"
    /\ UNCHANGED <<clientVars, attached, effectRuns, imports, apiClient, mounted,
                   formData, view, navigations, lastOutcome>>

handleLogin == \E origin \in {"form", "direct"} : Submit(origin)

\* <form onSubmit={handleLogin}>: the only way a user reaches handleLogin
onSubmit == Submit("form")

\* what handleLogin does once the awaited call has settled with outcome o:
\* the try block after the await, the catch block and the finally block
AfterSettleNoNavigate(o) ==
    LET ok == o.kind = "resolved" /\ o.success
    IN  [ navigate |-> FALSE,
          setError |-> ~ok,
          errorValue |-> IF o.kind = "resolved"
                           THEN OrElse(o.message, LoginFailedFallback)
                           ELSE OrElse(o.message, NetworkFallback),
          loading |-> FALSE ]
AfterSettleNullish(o) ==
    LET ok == o.kind = "resolved" /\ o.success
    IN  [ navigate |-> ok,
          setError |-> ~ok,
          errorValue |-> IF o.message # NoMessage THEN o.message
                         ELSE IF o.kind = "resolved" THEN LoginFailedFallback
                         ELSE NetworkFallback,
          loading |-> FALSE ]
AfterSettleKeepsLoading(o) ==
    LET ok == o.kind = "resolved" /\ o.success
    IN  [ navigate |-> ok,
          setError |-> ~ok,
          errorValue |-> IF o.kind = "resolved"
                           THEN OrElse(o.message, LoginFailedFallback)
                           ELSE OrElse(o.message, NetworkFallback),
          loading |-> ~ok ]
AfterSettle(o) ==
    LET ok == o.kind = "resolved" /\ o.success
    IN  [ navigate |-> ok,
          setError |-> ~ok,
          errorValue |-> IF o.kind = "resolved"
                           THEN OrElse(o.message, LoginFailedFallback)
                           ELSE OrElse(o.message, NetworkFallback),
          loading |-> FALSE ]

Settle(i, o) ==
    LET eff == AfterSettle(o)
    IN  /\ pending' = RemoveAt(pending, i)
        /\ lastOutcome' = o
        /\ navigations' = IF eff.navigate THEN navigations + 1 ELSE navigations
        /\ error' = IF eff.setError THEN SetState(error, eff.errorValue) ELSE error
        /\ loading' = SetState(loading, eff.loading)
        /\ status' = IF eff.navigate THEN "Success" ELSE "Failed"
        /\ lastEvent' = "login.settled"
        /\ UNCHANGED <<clientVars, attached, effectRuns, imports, apiClient, mounted,
                       formData, view, issued>>

\* the awaited apiClient.login call resolves with {success, message?}
LoginResolve ==
    \E i \in 1..Len(pending) :
        \E o \in {x \in Outcomes : x.kind = "resolved"} : Settle(i, o)

\* the awaited apiClient.login call rejects with an error
LoginReject ==
    \E i \in 1..Len(pending) :
        \E o \in {x \in Outcomes : x.kind = "rejected"} : Settle(i, o)

\* the instance leaves the tree: a link is followed, or the navigation to the
\* dashboard replaces the view
Unmount ==
    /\ attached
    /\ attached' = FALSE
    /\ view' = Rendered(FALSE, mounted)
    /\ lastEvent' = "unmount"
    /\ UNCHANGED <<clientVars, effectRuns, imports, apiClient, mounted, formData, loading,
                   error, pending, issued, navigations, status, lastOutcome>>

Next ==
    \/ Attach
    \/ ImportResolve
    \/ ImportReject
    \/ handleInputChange
    \/ handleLogin
    \/ LoginResolve
    \/ LoginReject
    \/ Unmount


Spec == Init /\ [][Next]_vars

NextClient ==
    \/ ensureInitialized
    \/ getToken
    \/ StorageChange

SpecClient == Init /\ [][NextClient]_vars

\* the page as a user drives it: handleLogin runs only as the form's onSubmit
NextUI ==
    \/ Attach
    \/ ImportResolve
    \/ ImportReject
    \/ handleInputChange
    \/ onSubmit
    \/ LoginResolve
    \/ LoginReject
    \/ Unmount

SpecUI == Init /\ [][NextUI]_vars

\* Scheduling: the attach effect runs once the instance is attached, and
\* every promise settles, one way or the other.  User events and the unmount
\* are not forced to happen.
FairSpecUI ==
    /\ SpecUI
    /\ WF_vars(Attach)
    /\ WF_vars(ImportResolve \/ ImportReject)
    /\ WF_vars(LoginResolve \/ LoginReject)

TypeOK ==
    /\ attached \in BOOLEAN
    /\ mounted \in BOOLEAN
    /\ loading \in BOOLEAN
    /\ apiClient \in {null, ApiModule}
    /\ view \in {"placeholder", "form", "none"}
    /\ status \in {"Idle", "Submitting", "Success", "Failed"}
    /\ issued \in 0..MaxCalls
    /\ navigations \in 0..MaxCalls
    /\ Len(pending) <= MaxCalls
\* ------------------------------------------------------------- claims
\* a step in which one awaited login call settled
Settled == Len(pending') < Len(pending)
SettledOk == Settled /\ lastOutcome'.kind = "resolved" /\ lastOutcome'.success
SettledBad == Settled /\ ~(lastOutcome'.kind = "resolved" /\ lastOutcome'.success)

\* C1: while mounted is false, the last render never returned the
\* interactive form, and on a live instance it returned the placeholder.
C1_PlaceholderUntilMounted ==
    ~mounted => (view # "form" /\ (attached => view = "placeholder"))

\* the attach effect has run, its load has not completed (still pending, or
\* failed), and the placeholder is what is shown
C1_Witness ==
    /\ attached /\ ~mounted
    /\ effectRuns >= 1 /\ imports >= 1
    /\ lastEvent = "import.rejected"
    /\ view = "placeholder"

\* C2: a handleLogin invocation in a state where mounted is false or
\* apiClient is not loaded sets the "still loading" error, issues no remote
\* call and leaves loading false; and every step that issues a remote call
\* starts in a state where mounted is true and apiClient is loaded.
C2_NotReadyRejected ==
    [][ /\ (lastEvent' \in SubmitEvents /\ (~mounted \/ apiClient = null))
            => /\ error' = StillLoading
               /\ issued' = issued
               /\ pending' = pending
               /\ ~loading /\ ~loading'
               /\ status' = status
        /\ (issued' # issued \/ Len(pending') > Len(pending))
            => (mounted /\ apiClient = ApiModule)
      ]_vars

\* a submission was attempted before the load completed and was rejected
C2_Witness ==
    /\ lastEvent \in SubmitEvents
    /\ ~mounted
    /\ error = StillLoading
    /\ issued = 0 /\ ~loading

\* C3: when an awaited login call resolves with success = true, the flow
\* moves from Submitting (the call was pending) to Success, router.replace
\* is called exactly once, and the inline error is left as it was.
C3_SuccessNavigatesOnce ==
    [][ SettledOk => /\ Len(pending) > 0
                     /\ status' = "Success"
                     /\ navigations' = navigations + 1
                     /\ error' = error
      ]_vars

\* a form submission with typed credentials succeeded: one navigation, no error
C3_Witness ==
    /\ status = "Success"
    /\ lastEvent = "login.settled"
    /\ lastOutcome.success
    /\ issued = 1 /\ navigations = 1
    /\ formData = [email |-> "a@b.com", password |-> "password1"]
    /\ attached /\ error = null

\* C4: when an awaited login call rejects or resolves with success = false,
\* the flow moves to Failed and router.replace is not called; on a live
\* instance the inline error becomes the failure's message when it carries a
\* non-empty one, and the generic fallback of that kind of failure otherwise.
C4_FailureShowsMessage ==
    [][ SettledBad =>
          /\ status' = "Failed"
          /\ navigations' = navigations
          /\ attached =>
               /\ error' # null
               /\ IF lastOutcome'.message \in {NoMessage, ""}
                    THEN error' = (IF lastOutcome'.kind = "resolved"
                                     THEN LoginFailedFallback
                                     ELSE NetworkFallback)
                    ELSE error' = lastOutcome'.message
      ]_vars

\* a rejection without a message ended in Failed with the generic message
C4_Witness ==
    /\ status = "Failed"
    /\ lastEvent = "login.settled"
    /\ lastOutcome = [kind |-> "rejected", success |-> FALSE, message |-> NoMessage]
    /\ attached /\ error = NetworkFallback
    /\ navigations = 0 /\ ~loading
\* C5: once a login call has resolved with success = true (router.replace
\* was called), no submit event of the form issues a further remote call or
\* brings the flow back to Submitting.
C5_SuccessTerminal ==
    [][ (navigations > 0 /\ lastEvent' = "submit:form")
          => (issued' = issued /\ status' # "Submitting") ]_vars

\* C6: on a live instance every Failed state has loading false, the form
\* shown with its submit control enabled, and handleLogin ready to issue a
\* call; and every step that issues a call sets loading and clears the
\* inline error.
C6_FailedResubmits ==
    /\ [](attached /\ status = "Failed"
            => /\ ~loading
               /\ view = "form" /\ ~SubmitDisabled
               /\ mounted /\ apiClient = ApiModule)
    /\ [][ issued' > issued
            => /\ status' = "Submitting"
               /\ attached => (loading' /\ error' = null) ]_vars

\* after two consecutive failures the form was submitted a third time
C6_Witness ==
    /\ attached
    /\ status = "Submitting" /\ lastEvent = "submit:form"
    /\ issued = 3 /\ Len(pending) = 1 /\ navigations = 0
    /\ lastOutcome.kind \in {"resolved", "rejected"} /\ ~lastOutcome.success
    /\ loading /\ error = null

\* C7: mounted never goes from true to false, and it changes only when a
\* load of the helper module completes.
C7_MountedMonotonic ==
    [][ /\ mounted => mounted'
        /\ mounted' # mounted
             => (~mounted /\ mounted' /\ lastEvent' = "import.then"
                 /\ imports' = imports - 1)
      ]_vars

\* the attach effect ran again on a mounted instance, whose second load
\* then completed after a failed submission: mounted is still true
C7_Witness ==
    /\ mounted /\ attached
    /\ effectRuns = 2 /\ imports = 0
    /\ lastEvent = "import.then"
    /\ status = "Failed"

AfterFailure ==
    \/ lastEvent = "import.rejected"
    \/ lastEvent \in SubmitEvents /\ error = StillLoading
    \/ lastEvent = "login.settled" /\ status = "Failed"

\* the form is shown and can be submitted
Recoverable == view = "form" /\ ~loading

\* C11: a live instance that is in a state following a failure eventually
\* shows the form with loading false (or is unmounted by the user).
C11_NothingFatal ==
    (attached /\ AfterFailure) ~> (Recoverable \/ ~attached)

\* C12: once the instance is unmounted, no step calls router.replace or
\* changes the instance's error or loading state.
C12_DetachedResultDiscarded ==
    [][ ~attached => /\ navigations' = navigations
                     /\ error' = error
                     /\ loading' = loading ]_vars

\* C13: driven through the form only, at most one login call is pending; on
\* a live instance loading is true exactly while a call is pending and the
\* submit control is then disabled; a call is issued only when none is
\* pending; and no input changes while loading.
C13_OneCallAtATime ==
    /\ [](/\ Len(pending) <= 1
          /\ attached => (loading <=> pending # <<>>)
          /\ (attached /\ loading) => SubmitDisabled)
    /\ [][ /\ issued' > issued => (pending = <<>> /\ ~loading)
           /\ (attached /\ loading) => formData' = formData ]_vars

\* a second submission is pending after the first one settled with a failure
C13_Witness ==
    /\ attached /\ loading
    /\ Len(pending) = 1 /\ issued = 2 /\ navigations = 0
    /\ lastEvent = "submit:form"
    /\ lastOutcome.kind = "rejected"

\* C14: mounted implies that apiClient is loaded, and a submit event of the
\* form never takes the not-ready branch of handleLogin.
C14_MountedImpliesLoaded ==
    /\ [](mounted => apiClient = ApiModule)
    /\ [][ lastEvent' = "submit:form"
             => /\ mounted /\ apiClient = ApiModule
                /\ error' # StillLoading ]_vars

\* the form was submitted once the load had completed, and the submission
\* went through to the remote call
C14_Witness ==
    /\ lastEvent = "submit:form"
    /\ mounted /\ apiClient = ApiModule
    /\ status = "Submitting" /\ error = null /\ loading
    /\ effectRuns = 1 /\ issued = 1
====
